---- MODULE Spec2Model ----
(***************************************************************************)
(* Model of ploomber.env.EnvDict (src/src/ploomber/env/EnvDict.py).        *)
(*                                                                         *)
(* Strings are sequences of symbols.  A symbol is a run of characters that *)
(* the code never looks inside ("env", "a", "module"), the underscore "_", *)
(* the path separator "/", or a placeholder token such as "{{here}}".      *)
(* Dictionary keys are strings, hence sequences of symbols; a key path is  *)
(* a sequence of keys.                                                     *)
(*                                                                         *)
(* A nested dictionary is a function from the key paths that exist in it   *)
(* to nodes; a node is a record [t, v]: t is the Python type of the value  *)
(* ("map", "str", "int", "none", "path") and v its content as symbols.     *)
(*                                                                         *)
(* Python objects that can be aliased live in a heap: heap[d] is the       *)
(* content of the dict object with identity d; an EnvDict instance holds   *)
(* the identity of its _data dict.                                         *)
(***************************************************************************)
EXTENDS Integers, Sequences, FiniteSets, TLC

\* ------------------------------------------------------------------ bounds
MaxObjs == 2        \* EnvDict instances alive in one behaviour
MaxOps == 2         \* operations performed in one behaviour
MaxEntries == 2     \* entries of the mapping given to _replace_flatten_keys

\* ------------------------------------------------------------------ values
MapNode == [t |-> "map", v |-> <<>>]
NoneV == [t |-> "none", v |-> <<>>]
Str(s) == [t |-> "str", v |-> s]
IntV(n) == [t |-> "int", v |-> <<n>>]
PathV(p) == [t |-> "path", v |-> p]

\* the absent optional path (Python None) and a present one
NoPath == [some |-> FALSE, p |-> <<>>]
SomePath(p) == [some |-> TRUE, p |-> p]

EmptyTree == [p \in {} |-> MapNode]

\* keys
K_a == <<"a">>
K_b == <<"b">>
K_c == <<"c">>
K_n == <<"n">>
K_z == <<"z">>
K_x == <<"x">>
K_path == <<"path">>
K_user == <<"user">>
K_cwd == <<"cwd">>
K_root == <<"root">>
K_here == <<"here">>
K_module == <<"_", "module">>

IsPrefix(p, q) == Len(p) <= Len(q) /\ SubSeq(q, 1, Len(p)) = p
IsProperPrefix(p, q) == Len(p) < Len(q) /\ SubSeq(q, 1, Len(p)) = p

\* the top-level keys of a dictionary
TopKeys(tree) == {p[1] : p \in {q \in DOMAIN tree : Len(q) = 1}}

\* the value stored at key path p: a tree rooted at the empty path
Sub(tree, p) ==
    [q \in {SubSeq(r, Len(p) + 1, Len(r)) : r \in {s \in DOMAIN tree : IsPrefix(p, s)}}
        |-> tree[p \o q]]

\* a scalar as a stored value
Leaf(node) == (<<>> :> node)

\* ---------------------------------------------------------------- pathlib
\* pathlib.Path: a sequence of components, the first one "/" when absolute
Parent(p) == IF Len(p) <= 1 THEN p ELSE SubSeq(p, 1, Len(p) - 1)

RECURSIVE JoinFrom(_, _)
JoinFrom(p, i) ==
    IF i > Len(p) THEN <<>>
    ELSE (IF i > 1 /\ p[i - 1] # "/" THEN <<"/", p[i]>> ELSE <<p[i]>>) \o JoinFrom(p, i + 1)

\* str(path)
PathStr(p) == JoinFrom(p, 1)

RECURSIVE Components(_)
Components(s) ==
    IF s = <<>> THEN <<>>
    ELSE IF Head(s) = "/" THEN Components(Tail(s))
    ELSE <<Head(s)>> \o Components(Tail(s))

\* Path(string)
ToPath(s) ==
    IF s # <<>> /\ Head(s) = "/" THEN <<"/">> \o Components(Tail(s)) ELSE Components(s)

\* ------------------------------------------------------------ environment
\* what the operating system and the file system answer
UserName == <<"alice">>
Cwd == <<"/", "work">>
ProjDir == <<"/", "proj">>
OtherDir == <<"/", "other">>
EnvYaml == <<"/", "proj", "env.yaml">>
HereYaml == <<"/", "proj", "here.yaml">>
BadYaml == <<"/", "proj", "bad.yaml">>
EmptyYaml == <<"/", "proj", "empty.yaml">>
MissingYaml == <<"missing.yaml">>
PkgInit == <<"/", "site", "pkg", "__init__.py">>

ExistingDirs == {ProjDir, OtherDir, Cwd}

\* raw mappings used as sources
RawAB == (<<K_a>> :> MapNode) @@ (<<K_a, K_b>> :> IntV("1"))
RawHere ==
    (<<K_a>> :> MapNode) @@ (<<K_a, K_b>> :> IntV("1"))
        @@ (<<K_module>> :> Str(<<"{{here}}">>))
RawPath == (<<K_path>> :> Str(<<"{{user}}", "/", "data">>))
RawMissing == (<<K_x>> :> Str(<<"{{missing}}">>))
RawUser ==
    (<<K_user>> :> Str(<<"bob">>)) @@ (<<K_a>> :> MapNode)
        @@ (<<K_a, K_b>> :> IntV("1")) @@ (<<K_n>> :> NoneV)
RawModDir ==
    (<<K_module>> :> Str(<<"/", "other">>)) @@ (<<K_a>> :> MapNode)
        @@ (<<K_a, K_b>> :> IntV("1")) @@ (<<K_c>> :> Str(<<"{{here}}">>))
RawModFile == (<<K_module>> :> Str(PathStr(EnvYaml)))
RawModPkg == (<<K_module>> :> Str(<<"pkg">>)) @@ (<<K_c>> :> IntV("3"))
RawModNone == (<<K_module>> :> Str(<<"nomod">>))

\* the files on disk: what yaml.load does with each
FileContent(path) ==
    IF path = EnvYaml THEN [kind |-> "mapping", raw |-> RawAB]
    ELSE IF path = HereYaml THEN [kind |-> "mapping", raw |-> RawHere]
    ELSE IF path = BadYaml THEN [kind |-> "syntax_error", raw |-> EmptyTree]
    ELSE [kind |-> "none", raw |-> EmptyTree]

ExistingFiles == {EnvYaml, HereYaml, BadYaml, EmptyYaml, PkgInit}

\* importlib.util.find_spec(name).origin, None when there is no such module
FindSpec(s) == IF s = <<"pkg">> THEN SomePath(PkgInit) ELSE NoPath

\* ----------------------------------------------------------------- state
VARIABLES
    heap,       \* heap[d]: content of the dict object d (an EnvDict's _data)
    objs,       \* the EnvDict instances: _data (identity), _preprocessed, _expander, _path_to_env
    snap,       \* snap[i]: _data of instance i when created or last assigned through it
    last,       \* the last operation: its arguments, its outcome and the receiver's _data before it
    nops        \* operations performed

vars == <<heap, objs, snap, last, nops>>

\* --------------------------------------------------------------- expander
\* EnvironmentExpander(preprocessed, path_to_here): the placeholder table
Tags == {"{{user}}", "{{cwd}}", "{{here}}", "{{root}}", "{{missing}}"}

EnvironmentExpander(path_to_here, has_root) == [here |-> path_to_here, root |-> has_root]

\* the value of one placeholder, ok = FALSE when it cannot be resolved
load_placeholder(expander, tag) ==
    IF tag = "{{user}}" THEN [ok |-> TRUE, s |-> UserName]
    ELSE IF tag = "{{cwd}}" THEN [ok |-> TRUE, s |-> PathStr(Cwd)]
    ELSE IF tag = "{{here}}" /\ expander.here.some
        THEN [ok |-> TRUE, s |-> PathStr(expander.here.p)]
    ELSE IF tag = "{{root}}" /\ expander.root THEN [ok |-> TRUE, s |-> PathStr(ProjDir)]
    ELSE [ok |-> FALSE, s |-> <<>>]

RECURSIVE render(_, _)
render(expander, s) ==
    IF s = <<>> THEN [ok |-> TRUE, s |-> <<>>]
    ELSE LET rest == render(expander, Tail(s))
             first == IF Head(s) \in Tags THEN load_placeholder(expander, Head(s))
                      ELSE [ok |-> TRUE, s |-> <<Head(s)>>]
         IN  IF first.ok /\ rest.ok THEN [ok |-> TRUE, s |-> first.s \o rest.s]
             ELSE [ok |-> FALSE, s |-> <<>>]

\* expand_raw_value: a string has its placeholders substituted, any other
\* scalar passes through; ok = FALSE for an unknown placeholder
expand_raw_value(expander, value) ==
    IF value.t = "str"
    THEN LET r == render(expander, value.v)
         IN  [ok |-> r.ok, val |-> Str(r.s)]
    ELSE [ok |-> TRUE, val |-> value]

\* expand_raw_dictionary: every value of the tree expanded
expand_raw_dictionary(expander, raw) ==
    [ok |-> \A p \in DOMAIN raw : expand_raw_value(expander, raw[p]).ok,
     data |-> [p \in DOMAIN raw |-> expand_raw_value(expander, raw[p]).val]]

\* ------------------------------------------------------- load_from_source
MappingSource(raw) == [kind |-> "mapping", raw |-> raw, path |-> <<>>]
NoneSource == [kind |-> "none", raw |-> EmptyTree, path |-> <<>>]
StrSource(path) == [kind |-> "str", raw |-> EmptyTree, path |-> path]

\* the with-block of load_from_source: yaml.load inside try / except / finally
load_yaml(path) ==
    LET content == FileContent(path)
        \* try: raw = yaml.load(f)
        try_exc == IF content.kind = "syntax_error" THEN "YAMLError" ELSE "ok"
        raw_bound == try_exc = "ok"
        \* except Exception as e: raise type(e)(hint) from e
        except_exc == IF try_exc = "ok" THEN "ok" ELSE "YAMLError_with_hint"
        \* finally: if not isinstance(raw, Mapping): raise ValueError
        finally_exc == IF ~raw_bound THEN "UnboundLocalError"
                       ELSE IF content.kind # "mapping" THEN "ValueError_not_a_dict"
                       ELSE "ok"
        exc == IF finally_exc # "ok" THEN finally_exc ELSE except_exc
    IN  [exc |-> exc,
         raw |-> IF exc = "ok" THEN content.raw ELSE EmptyTree,
         path |-> IF exc = "ok" THEN SomePath(path) ELSE NoPath]

\* found: what the recursive file search of ploomber.util.default answers
load_from_source(source, found) ==
    IF source.kind = "mapping" THEN [exc |-> "ok", raw |-> source.raw, path |-> NoPath]
    ELSE IF source.kind = "none"
    THEN IF ~found.some THEN [exc |-> "FileNotFoundError", raw |-> EmptyTree, path |-> NoPath]
         ELSE load_yaml(found.p)
    ELSE IF source.path \in ExistingFiles THEN load_yaml(source.path)
    ELSE IF ~found.some THEN [exc |-> "FileNotFoundError", raw |-> EmptyTree, path |-> NoPath]
    ELSE load_yaml(found.p)

\* --------------------------------------------------------- raw_preprocess
Truthy(tree, p) ==
    /\ p \in DOMAIN tree
    /\ \/ tree[p].t = "str" /\ tree[p].v # <<>>
       \/ tree[p].t = "int" /\ tree[p].v # <<"0">>
       \/ tree[p].t = "path"
       \/ tree[p].t = "map" /\ \E q \in DOMAIN tree : IsProperPrefix(p, q)

\* a plausible slip: the source file itself taken for its directory
here_is_source_file(path_to_raw) == path_to_raw.p

\* path_to_raw.parent, what _module = {{here}} resolves to
here_directory(path_to_raw) == Parent(path_to_raw.p)

raw_preprocess(raw, path_to_raw) ==
    IF ~Truthy(raw, <<K_module>>) THEN [exc |-> "ok", preprocessed |-> EmptyTree]
    ELSE IF raw[<<K_module>>] = Str(<<"{{here}}">>)
    THEN IF path_to_raw.some
         THEN [exc |-> "ok", preprocessed |-> (<<K_module>> :> PathV(here_directory(path_to_raw)))]
         ELSE [exc |-> "ValueError_module_here", preprocessed |-> EmptyTree]
    ELSE IF raw[<<K_module>>].t # "str"
    THEN [exc |-> "TypeError", preprocessed |-> EmptyTree]
    ELSE LET as_path == ToPath(raw[<<K_module>>].v)
             module_spec == FindSpec(raw[<<K_module>>].v)
         IN  IF as_path \in ExistingFiles
             THEN [exc |-> "ValueError_module_is_file", preprocessed |-> EmptyTree]
             ELSE IF as_path \in ExistingDirs
             THEN [exc |-> "ok", preprocessed |-> (<<K_module>> :> PathV(as_path))]
             ELSE IF ~module_spec.some
             THEN [exc |-> "ValueError_module_not_found", preprocessed |-> EmptyTree]
             ELSE [exc |-> "ok",
                   preprocessed |-> (<<K_module>> :> PathV(Parent(module_spec.p)))]

\* --------------------------------------------------------------- __init__
\* has_root: whether default.find_root_recursively() finds a project root
_default_dict(include_here, has_root) ==
    [p \in {<<K_user>>, <<K_cwd>>}
            \cup (IF has_root THEN {<<K_root>>} ELSE {})
            \cup (IF include_here THEN {<<K_here>>} ELSE {})
        |-> IF p = <<K_user>> THEN Str(<<"{{user}}">>)
            ELSE IF p = <<K_cwd>> THEN Str(<<"{{cwd}}">>)
            ELSE IF p = <<K_root>> THEN Str(<<"{{root}}">>)
            ELSE Str(<<"{{here}}">>)]

\* a plausible slip: the defaults unpacked last
merge_defaults_last(defaults, raw_data) ==
    [p \in {q \in DOMAIN raw_data : q[1] \notin TopKeys(defaults)} \cup DOMAIN defaults
        |-> IF p \in DOMAIN defaults THEN defaults[p] ELSE raw_data[p]]

\* {**defaults, **raw_data}
merge_defaults(defaults, raw_data) ==
    [p \in {q \in DOMAIN defaults : q[1] \notin TopKeys(raw_data)} \cup DOMAIN raw_data
        |-> IF p \in DOMAIN raw_data THEN raw_data[p] ELSE defaults[p]]

NoObj ==
    [preprocessed |-> EmptyTree, expander |-> EnvironmentExpander(NoPath, FALSE),
     path_to_env |-> NoPath]

\* EnvDict.__init__ for a source that is not an EnvDict.  valid: the answer
\* of validate.raw_data_keys.  Gives the exception raised ("ok" for none),
\* the attributes set and the content of the new _data.
__init__(source, path_to_here, found, has_root, valid) ==
    LET loaded == load_from_source(source, found)
        raw_data == merge_defaults(_default_dict(path_to_here.some, has_root), loaded.raw)
        pre == raw_preprocess(raw_data, loaded.path)
        here == IF ~path_to_here.some
                THEN (IF loaded.path.some THEN SomePath(Parent(loaded.path.p)) ELSE NoPath)
                ELSE path_to_here
        expander == EnvironmentExpander(here, has_root)
        expanded == expand_raw_dictionary(expander, raw_data)
        exc == IF loaded.exc # "ok" THEN loaded.exc
               ELSE IF ~valid THEN "ValidationError"
               ELSE IF pre.exc # "ok" THEN pre.exc
               ELSE IF ~expanded.ok THEN "ExpandError"
               ELSE "ok"
    IN  [exc |-> exc,
         merged |-> IF loaded.exc = "ok" THEN raw_data ELSE EmptyTree,
         obj |-> IF exc = "ok"
                 THEN [preprocessed |-> pre.preprocessed, expander |-> expander,
                       path_to_env |-> loaded.path]
                 ELSE NoObj,
         data |-> IF exc = "ok" THEN expanded.data ELSE EmptyTree]

\* -------------------------------------------------------------- overrides
\* str.split('__')
RECURSIVE split_from(_, _)
split_from(s, part) ==
    IF s = <<>> THEN <<part>>
    ELSE IF Len(s) >= 2 /\ s[1] = "_" /\ s[2] = "_"
    THEN <<part>> \o split_from(SubSeq(s, 3, Len(s)), <<>>)
    ELSE split_from(Tail(s), Append(part, Head(s)))

split(s) == split_from(s, <<>>)

\* the loop "for e in keys_to_final_dict: dict_to_edit = dict_to_edit[e]",
\* dict_to_edit being the value at key path at
RECURSIVE descend(_, _, _)
descend(data, at, keys) ==
    IF keys = <<>> THEN [exc |-> "ok", at |-> at]
    ELSE IF at # <<>> /\ data[at].t # "map" THEN [exc |-> "TypeError", at |-> at]
    ELSE IF at \o <<Head(keys)>> \notin DOMAIN data THEN [exc |-> "KeyError", at |-> at]
    ELSE descend(data, at \o <<Head(keys)>>, Tail(keys))

\* dict_to_edit[key_to_edit] = new
assign(data, target, new) ==
    [p \in {q \in DOMAIN data : ~IsProperPrefix(target, q)} \cup {target}
        |-> IF p = target THEN new ELSE data[p]]

\* a plausible slip: the new value stored under the first key of the path
_replace_value_at_top(data, expander, value, keys_all) ==
    IF keys_all = <<>> THEN [exc |-> "IndexError", data |-> data]
    ELSE LET dict_to_edit == descend(data, <<>>, SubSeq(keys_all, 1, Len(keys_all) - 1))
             target == dict_to_edit.at \o <<keys_all[Len(keys_all)]>>
             new == expand_raw_value(expander, value)
         IN  IF dict_to_edit.exc # "ok" THEN [exc |-> dict_to_edit.exc, data |-> data]
             ELSE IF dict_to_edit.at # <<>> /\ data[dict_to_edit.at].t # "map"
             THEN [exc |-> "AttributeError", data |-> data]
             ELSE IF target \notin DOMAIN data \/ data[target] = NoneV
             THEN [exc |-> "KeyError", data |-> data]
             ELSE IF ~new.ok THEN [exc |-> "ExpandError", data |-> data]
             ELSE [exc |-> "ok", data |-> assign(data, <<keys_all[1]>>, new.val)]

\* EnvDict._replace_value on the dict content data: the exception raised
\* ("ok" for none) and the content afterwards
_replace_value(data, expander, value, keys_all) ==
    IF keys_all = <<>> THEN [exc |-> "IndexError", data |-> data]
    ELSE LET dict_to_edit == descend(data, <<>>, SubSeq(keys_all, 1, Len(keys_all) - 1))
             target == dict_to_edit.at \o <<keys_all[Len(keys_all)]>>
             new == expand_raw_value(expander, value)
         IN  IF dict_to_edit.exc # "ok" THEN [exc |-> dict_to_edit.exc, data |-> data]
             ELSE IF dict_to_edit.at # <<>> /\ data[dict_to_edit.at].t # "map"
             THEN [exc |-> "AttributeError", data |-> data]
             ELSE IF target \notin DOMAIN data \/ data[target] = NoneV
             THEN [exc |-> "KeyError", data |-> data]
             ELSE IF ~new.ok THEN [exc |-> "ExpandError", data |-> data]
             ELSE [exc |-> "ok", data |-> assign(data, target, new.val)]

_inplace_replace_flatten_key(data, expander, value, key_flatten) ==
    LET parts == split(key_flatten)
    IN  IF parts[1] # <<"env">> THEN [exc |-> "ValueError", data |-> data]
        ELSE _replace_value(data, expander, value, Tail(parts))

\* to_replace: the items of the mapping, in iteration order
RECURSIVE _inplace_replace_flatten_keys(_, _, _)
_inplace_replace_flatten_keys(data, expander, to_replace) ==
    IF to_replace = <<>> THEN [exc |-> "ok", data |-> data]
    ELSE LET r == _inplace_replace_flatten_key(data, expander, Head(to_replace).value,
                                               Head(to_replace).key)
         IN  IF r.exc # "ok" THEN r
             ELSE _inplace_replace_flatten_keys(r.data, expander, Tail(to_replace))

\* copy.copy(self): a new instance whose attributes are the same objects
copy(self) == self

\* ----------------------------------------------------------------- lookup
\* a plausible slip: the expanded data consulted first
_getitem_data_first(preprocessed, data, key) ==
    IF <<key>> \in DOMAIN data THEN [exc |-> "ok", result |-> Sub(data, <<key>>)]
    ELSE IF <<key>> \in DOMAIN preprocessed
    THEN [exc |-> "ok", result |-> Sub(preprocessed, <<key>>)]
    ELSE [exc |-> "KeyError", result |-> EmptyTree]

\* EnvDict._getitem / __getitem__ ; FrozenJSON is a read-only view of the value
_getitem(preprocessed, data, key) ==
    IF <<key>> \in DOMAIN preprocessed
    THEN [exc |-> "ok", result |-> Sub(preprocessed, <<key>>)]
    ELSE IF <<key>> \in DOMAIN data THEN [exc |-> "ok", result |-> Sub(data, <<key>>)]
    ELSE [exc |-> "KeyError", result |-> EmptyTree]

\* the content of instance i's _data
Data(i) == heap[objs[i].data]

\* env[keys[1]][keys[2]]... on instance i
get_path(i, keys) ==
    LET top == _getitem(objs[i].preprocessed, Data(i), keys[1])
        rest == Tail(keys)
    IN  IF top.exc # "ok" THEN top
        ELSE IF rest \in DOMAIN top.result
        THEN [exc |-> "ok", result |-> Sub(top.result, rest)]
        ELSE [exc |-> "KeyError", result |-> EmptyTree]

\* ----------------------------------------------------------------- inputs
CtorInput(source, path_to_here, found, has_root, valid) ==
    [source |-> source, path_to_here |-> path_to_here, found |-> found,
     has_root |-> has_root, valid |-> valid]

Heres == {NoPath, SomePath(OtherDir)}

CtorInputs ==
    {CtorInput(MappingSource(raw), here, NoPath, FALSE, TRUE) :
        raw \in {RawAB, RawHere, RawUser, RawModDir}, here \in Heres}
    \cup {CtorInput(MappingSource(raw), NoPath, NoPath, FALSE, TRUE) :
        raw \in {RawPath, RawMissing, RawModFile, RawModPkg, RawModNone}}
    \cup {CtorInput(MappingSource(RawUser), here, NoPath, TRUE, TRUE) : here \in Heres}
    \cup {CtorInput(MappingSource(RawAB), NoPath, NoPath, FALSE, FALSE)}
    \cup {CtorInput(StrSource(path), here, NoPath, FALSE, TRUE) :
        path \in {EnvYaml, HereYaml}, here \in Heres}
    \cup {CtorInput(StrSource(path), NoPath, NoPath, FALSE, TRUE) :
        path \in {BadYaml, EmptyYaml}}
    \cup {CtorInput(source, NoPath, found, FALSE, TRUE) :
        source \in {StrSource(MissingYaml), NoneSource},
        found \in {NoPath, SomePath(BadYaml)}}

V_2 == IntV("2")
V_user == Str(<<"{{user}}", "/", "data">>)
V_missing == Str(<<"{{missing}}">>)

U == <<"_", "_">>
F_a_b == <<"env">> \o U \o K_a \o U \o K_b
F_a == <<"env">> \o U \o K_a
F_a_z == <<"env">> \o U \o K_a \o U \o K_z
F_z_b == <<"env">> \o U \o K_z \o U \o K_b
F_a_b_c == <<"env">> \o U \o K_a \o U \o K_b \o U \o K_c
F_a_b_c_z == <<"env">> \o U \o K_a \o U \o K_b \o U \o K_c \o U \o K_z
F_n == <<"env">> \o U \o K_n
F_module == <<"env">> \o U \o K_module
F_env == <<"env">>
F_env_trailing == <<"env">> \o U
F_empty == <<>>
F_noprefix == K_a \o U \o K_b
F_envx == <<"env", "x">> \o U \o K_a
F_env_a == <<"env", "_">> \o K_a

FlatKeys ==
    {F_a_b, F_a, F_a_z, F_z_b, F_a_b_c, F_a_b_c_z, F_n, F_module, F_env,
     F_env_trailing, F_empty, F_noprefix, F_envx, F_env_a}

Entry(key, value) == [key |-> key, value |-> value]

\* the (value, key_flatten) arguments of _replace_flatten_key
ReplaceInputs ==
    {Entry(key, V_2) : key \in FlatKeys}
    \cup {Entry(F_a_b, value) : value \in {V_user, V_missing, NoneV}}
    \cup {Entry(F_module, V_user)}

ManyEntries == {Entry(F_a_b, V_2), Entry(F_a_z, V_2), Entry(F_a, V_user)}

RECURSIVE SeqsUpTo(_, _)
SeqsUpTo(S, n) ==
    IF n = 0 THEN {<<>>}
    ELSE LET shorter == SeqsUpTo(S, n - 1)
         IN  shorter \cup {Append(q, e) : q \in shorter, e \in S}

\* the to_replace arguments of _replace_flatten_keys: a dict has distinct keys
ManyInputs ==
    {q \in SeqsUpTo(ManyEntries, MaxEntries) :
        \A i, j \in 1..Len(q) : i # j => q[i].key # q[j].key}

ItemKeys == {K_a, K_module, K_z}
SetKeys == {K_module, K_z}

\* ---------------------------------------------------------------- history
NoLast ==
    [op |-> "none", recv |-> 0, exc |-> "ok", key |-> <<>>, value |-> NoneV,
     entries |-> <<>>, pre |-> EmptyTree, res |-> 0, result |-> EmptyTree,
     input |-> CtorInput(NoneSource, NoPath, NoPath, FALSE, TRUE), merged |-> EmptyTree,
     changed |-> FALSE]

\* An operation that raised before changing anything, or a lookup, leaves
\* every object as it was: whatever the program does next it could have done
\* without it.  Such an operation is therefore explored as the last step of
\* a behaviour only, which reaches the same states.
Resting == last.op = "none" \/ last.changed

Init ==
    /\ heap = <<>>
    /\ objs = <<>>
    /\ snap = <<>>
    /\ last = NoLast
    /\ nops = 0

\* ---------------------------------------------------------------- actions
\* EnvDict(source, path_to_here), the first instance of a behaviour
Construct(inp) ==
    \E r \in {__init__(inp.source, inp.path_to_here, inp.found, inp.has_root, inp.valid)} :
        /\ Resting
        /\ objs = <<>>
        /\ IF r.exc = "ok"
           THEN /\ nops < MaxOps
                /\ heap' = Append(heap, r.data)
                /\ objs' = Append(objs, [data |-> Len(heap) + 1,
                                         preprocessed |-> r.obj.preprocessed,
                                         expander |-> r.obj.expander,
                                         path_to_env |-> r.obj.path_to_env])
                /\ snap' = Append(snap, r.data)
                /\ nops' = nops + 1
           ELSE UNCHANGED <<heap, objs, snap, nops>>
        /\ last' = [NoLast EXCEPT !.op = "construct", !.exc = r.exc, !.input = inp,
                                  !.merged = r.merged, !.changed = r.exc = "ok",
                                  !.res = IF r.exc = "ok" THEN Len(objs) + 1 ELSE 0]

\* EnvDict(source) with source an EnvDict: every attribute deep-copied
CopyConstruct(i) ==
    /\ Resting
    /\ Len(objs) < MaxObjs
    /\ nops < MaxOps
    /\ heap' = Append(heap, Data(i))
    /\ objs' = Append(objs, [objs[i] EXCEPT !.data = Len(heap) + 1])
    /\ snap' = Append(snap, Data(i))
    /\ nops' = nops + 1
    /\ last' = [NoLast EXCEPT !.op = "copy_construct", !.recv = i, !.pre = Data(i),
                              !.res = Len(objs) + 1, !.changed = TRUE]

\* EnvDict._replace_flatten_key(value, key_flatten)
_replace_flatten_key(i, value, key_flatten) ==
    \E obj \in {copy(objs[i])} :
    \E r \in {_inplace_replace_flatten_key(heap[obj.data], obj.expander, value, key_flatten)} :
        /\ Resting
        /\ heap' = [heap EXCEPT ![obj.data] = r.data]
        /\ IF r.exc = "ok"
           THEN /\ Len(objs) < MaxObjs
                /\ nops < MaxOps
                /\ objs' = Append(objs, obj)
                /\ snap' = Append(snap, r.data)
                /\ nops' = nops + 1
           ELSE UNCHANGED <<objs, snap, nops>>
        /\ last' = [NoLast EXCEPT !.op = "replace_flatten_key", !.recv = i, !.exc = r.exc,
                                  !.key = key_flatten, !.value = value, !.pre = Data(i),
                                  !.changed = r.exc = "ok",
                                  !.res = IF r.exc = "ok" THEN Len(objs) + 1 ELSE 0]

\* EnvDict._replace_flatten_keys(to_replace)
_replace_flatten_keys(i, to_replace) ==
    \E obj \in {copy(objs[i])} :
    \E r \in {_inplace_replace_flatten_keys(heap[obj.data], obj.expander, to_replace)} :
        /\ Resting
        /\ heap' = [heap EXCEPT ![obj.data] = r.data]
        /\ IF r.exc = "ok"
           THEN /\ Len(objs) < MaxObjs
                /\ nops < MaxOps
                /\ objs' = Append(objs, obj)
                /\ snap' = Append(snap, r.data)
                /\ nops' = nops + 1
           ELSE /\ heap' # heap => nops < MaxOps
                /\ nops' = IF heap' # heap THEN nops + 1 ELSE nops
                /\ UNCHANGED <<objs, snap>>
        /\ last' = [NoLast EXCEPT !.op = "replace_flatten_keys", !.recv = i, !.exc = r.exc,
                                  !.entries = to_replace, !.pre = Data(i),
                                  !.changed = (r.exc = "ok" \/ r.data # Data(i)),
                                  !.res = IF r.exc = "ok" THEN Len(objs) + 1 ELSE 0]

\* EnvDict.__setitem__(key, value)
__setitem__(i, key, value) ==
    /\ Resting
    /\ nops < MaxOps
    /\ heap' = [heap EXCEPT ![objs[i].data] = assign(Data(i), <<key>>, value)]
    /\ snap' = [snap EXCEPT ![i] = assign(Data(i), <<key>>, value)]
    /\ nops' = nops + 1
    /\ last' = [NoLast EXCEPT !.op = "setitem", !.recv = i, !.key = key, !.value = value,
                              !.pre = Data(i), !.changed = TRUE]
    /\ UNCHANGED objs

\* EnvDict.__getitem__(key)
__getitem__(i, key) ==
    \E r \in {_getitem(objs[i].preprocessed, Data(i), key)} :
        /\ Resting
        /\ last' = [NoLast EXCEPT !.op = "getitem", !.recv = i, !.exc = r.exc, !.key = key,
                                  !.pre = Data(i), !.result = r.result]
        /\ UNCHANGED <<heap, objs, snap, nops>>

Next ==
    \/ \E inp \in CtorInputs : Construct(inp)
    \/ \E i \in 1..Len(objs) : CopyConstruct(i)
    \/ \E i \in 1..Len(objs), e \in ReplaceInputs : _replace_flatten_key(i, e.value, e.key)
    \/ \E i \in 1..Len(objs), to_replace \in ManyInputs : _replace_flatten_keys(i, to_replace)
    \/ \E i \in 1..Len(objs), key \in SetKeys : __setitem__(i, key, V_2)
    \/ \E i \in 1..Len(objs), key \in ItemKeys : __getitem__(i, key)

Spec == Init /\ [][Next]_vars

TypeOK == Len(objs) <= MaxObjs /\ nops <= MaxOps /\ Len(snap) = Len(objs)

\* ------------------------------------------------------------- properties
\* the key path a flattened key names
KeyPath(key_flatten) == Tail(split(key_flatten))

\* key_flatten starts with env__
StartsWithEnv(key_flatten) ==
    /\ Len(key_flatten) >= 3
    /\ key_flatten[1] = "env" /\ key_flatten[2] = "_" /\ key_flatten[3] = "_"

\* the last operation was _replace_flatten_key with a well-formed flattened key
Replaced == last.op = "replace_flatten_key" /\ StartsWithEnv(last.key)

\* C1: an override never mutates the receiver: every instance still holds the
\* data it held when it was created (or last assigned to through its own
\* __setitem__), whatever was done to its copies since.
C1_ReceiverNeverMutated == \A i \in 1..Len(objs) : Data(i) = snap[i]

\* C2: round trip: replacing the value at a key path that exists, whatever
\* is stored there, and then looking the path up on the result gives the
\* expansion of the new value.  Stated here for the key paths whose first
\* key has no preprocessed entry, where the lookup reads the expanded data.
C2_RoundTrip ==
    (/\ Replaced
     /\ KeyPath(last.key) \in DOMAIN last.pre
     /\ <<KeyPath(last.key)[1]>> \notin DOMAIN objs[last.recv].preprocessed
     /\ expand_raw_value(objs[last.recv].expander, last.value).ok)
    => /\ last.exc = "ok"
       /\ get_path(last.res, KeyPath(last.key))
            = [exc |-> "ok",
               result |-> Leaf(expand_raw_value(objs[last.recv].expander, last.value).val)]

\* C3: when _replace_flatten_keys raises, every lookup on the receiver gives
\* what it gave before the call.
C3_FailedManyLeavesReceiver ==
    (last.op = "replace_flatten_keys" /\ last.exc # "ok") => Data(last.recv) = last.pre

\* C4: replacing at a key path that does not exist in the expanded mapping
\* raises KeyError and changes nothing.
C4_MissingPathIsKeyError ==
    (/\ Replaced
     /\ KeyPath(last.key) \notin DOMAIN last.pre)
    => last.exc = "KeyError" /\ Data(last.recv) = last.pre

\* C5: a flattened key that does not start with env__ (the bare env and the
\* empty string included) raises ValueError and changes nothing.
C5_BadPrefixIsValueError ==
    (last.op = "replace_flatten_key" /\ ~StartsWithEnv(last.key))
    => last.exc = "ValueError" /\ Data(last.recv) = last.pre

\* C6: a lookup returns the preprocessed entry when there is one, otherwise
\* the entry of the expanded data, and raises KeyError exactly when the key
\* is in neither; no operation changes the preprocessed mapping of an instance.
C6_Lookup ==
    last.op = "getitem" =>
        IF <<last.key>> \in DOMAIN objs[last.recv].preprocessed
        THEN last.exc = "ok"
             /\ last.result = Sub(objs[last.recv].preprocessed, <<last.key>>)
        ELSE IF <<last.key>> \in DOMAIN last.pre
        THEN last.exc = "ok" /\ last.result = Sub(last.pre, <<last.key>>)
        ELSE last.exc = "KeyError"

C6_PreprocessedKept ==
    /\ \A i \in 1..Len(objs) : objs'[i].preprocessed = objs[i].preprocessed
    /\ (last'.op \in {"replace_flatten_key", "replace_flatten_keys", "copy_construct"}
        /\ last'.res # 0)
       => objs'[last'.res].preprocessed = objs[last'.recv].preprocessed

C6_LookupPriority == [](C6_Lookup) /\ [][C6_PreprocessedKept]_vars

\* a lookup of _module on an instance whose expanded data holds another
\* value under _module than the preprocessed mapping, after an override
C6_Witness ==
    /\ last.op = "getitem"
    /\ last.key = K_module
    /\ Len(objs) >= 2
    /\ <<K_module>> \in DOMAIN objs[last.recv].preprocessed
    /\ <<K_module>> \in DOMAIN last.pre
    /\ Sub(last.pre, <<K_module>>) # Sub(objs[last.recv].preprocessed, <<K_module>>)
    /\ last.pre[<<K_module>>] = V_2

\* the merged raw mapping has _module set to the literal {{here}}
ModuleIsHere ==
    /\ last.op = "construct"
    /\ last.input.valid
    /\ <<K_module>> \in DOMAIN last.merged
    /\ last.merged[<<K_module>>] = Str(<<"{{here}}">>)

\* C7 as stated: from the mapping source {"a": {"b": 1}, "_module":
\* "{{here}}"} and a base directory D given by the caller, construction
\* succeeds, _module is D and a.b is 1.
C7_HereFromMappingSource ==
    (/\ ModuleIsHere
     /\ last.input.source = MappingSource(RawHere)
     /\ last.input.path_to_here.some)
    => /\ last.exc = "ok"
       /\ get_path(last.res, <<K_module>>)
            = [exc |-> "ok", result |-> Leaf(PathV(last.input.path_to_here.p))]
       /\ get_path(last.res, <<K_a, K_b>>) = [exc |-> "ok", result |-> Leaf(IntV("1"))]

\* C7 amended: _module = {{here}} resolves to the directory of the source
\* file, whatever base directory the caller gives; from a mapping source the
\* construction raises ValueError, with or without a base directory.
C7_HereIsSourceDirectory ==
    ModuleIsHere =>
        IF last.input.source.kind = "mapping" THEN last.exc = "ValueError_module_here"
        ELSE /\ last.exc = "ok"
             /\ objs[last.res].path_to_env.some
             /\ last.input.source = StrSource(HereYaml)
                    => objs[last.res].path_to_env.p = HereYaml
             /\ get_path(last.res, <<K_module>>)
                    = [exc |-> "ok",
                       result |-> Leaf(PathV(Parent(objs[last.res].path_to_env.p)))]
             /\ get_path(last.res, <<K_a, K_b>>)
                    = [exc |-> "ok", result |-> Leaf(IntV("1"))]

\* the file /proj/here.yaml loaded with the caller's base directory /other
C7_Witness ==
    /\ ModuleIsHere
    /\ last.input.source = StrSource(HereYaml)
    /\ last.input.path_to_here = SomePath(OtherDir)
    /\ last.exc = "ok"
    /\ get_path(last.res, <<K_module>>) = [exc |-> "ok", result |-> Leaf(PathV(ProjDir))]

\* C8: a syntax error in the source file reaches the caller as the parser's
\* error carrying the hint.
C8_SyntaxErrorSurfaces ==
    (last.op = "construct" /\ last.input.source = StrSource(BadYaml))
    => last.exc = "YAMLError_with_hint"

\* the built-in placeholder keys offered to a construction
BuiltIns(inp) ==
    {K_user, K_cwd} \cup (IF inp.has_root THEN {K_root} ELSE {})
        \cup (IF inp.path_to_here.some THEN {K_here} ELSE {})

BuiltInValue(key) ==
    IF key = K_user THEN Str(<<"{{user}}">>)
    ELSE IF key = K_cwd THEN Str(<<"{{cwd}}">>)
    ELSE IF key = K_root THEN Str(<<"{{root}}">>)
    ELSE Str(<<"{{here}}">>)

\* the raw mapping of a source that loads
RawOf(inp) ==
    IF inp.source.kind = "mapping" THEN inp.source.raw ELSE FileContent(inp.source.path).raw

Loads(inp) == inp.source.kind = "mapping" \/ inp.source.path \in {EnvYaml, HereYaml}

\* C9: the mapping handed to validation, preprocessing and expansion holds
\* every key of the raw source with the raw value, and a built-in entry for
\* exactly the built-in names the raw source does not define.
C9_RawKeysWin ==
    (last.op = "construct" /\ Loads(last.input)) =>
        LET raw == RawOf(last.input)
            added == BuiltIns(last.input) \ TopKeys(raw)
        IN  /\ DOMAIN last.merged = DOMAIN raw \cup {<<k>> : k \in added}
            /\ \A p \in DOMAIN raw : last.merged[p] = raw[p]
            /\ \A k \in added : last.merged[<<k>>] = BuiltInValue(k)

\* a raw source that defines user itself, with root and here on offer
C9_Witness ==
    /\ last.op = "construct"
    /\ last.input.source = MappingSource(RawUser)
    /\ last.input.has_root /\ last.input.path_to_here.some
    /\ last.exc = "ok"
    /\ Data(last.res)[<<K_user>>] = Str(<<"bob">>)
    /\ <<K_root>> \in DOMAIN last.merged /\ <<K_here>> \in DOMAIN last.merged

\* what a successful replacement leaves alone besides the data
C10_RestKept ==
    /\ objs[last.res].preprocessed = objs[last.recv].preprocessed
    /\ objs[last.res].expander = objs[last.recv].expander
    /\ KeyPath(last.key) \in DOMAIN Data(last.res)
    /\ Data(last.res)[KeyPath(last.key)]
        = expand_raw_value(objs[last.recv].expander, last.value).val

\* C10 as stated: after a successful replacement every key path other than
\* the target (its ancestors, whose value contains the target, aside) holds
\* the value the receiver held before the call.
C10_OnlyTargetChanges ==
    (Replaced /\ last.exc = "ok") =>
        /\ C10_RestKept
        /\ \A p \in DOMAIN last.pre :
            (p # KeyPath(last.key) /\ ~IsPrefix(p, KeyPath(last.key)))
            => p \in DOMAIN Data(last.res) /\ Data(last.res)[p] = last.pre[p]

\* C10 amended: every key path that is neither an ancestor nor a descendant
\* of the target holds the value the receiver held; the descendants of the
\* target are gone, no key path is added.
C10_OnlyTargetSubtreeChanges ==
    (Replaced /\ last.exc = "ok") =>
        /\ C10_RestKept
        /\ DOMAIN Data(last.res)
            = {p \in DOMAIN last.pre : ~IsProperPrefix(KeyPath(last.key), p)}
        /\ \A p \in DOMAIN last.pre :
            (~IsPrefix(p, KeyPath(last.key)) /\ ~IsPrefix(KeyPath(last.key), p))
            => Data(last.res)[p] = last.pre[p]

\* a nested leaf replaced by a value with a placeholder, next to other values
C10_Witness ==
    /\ Replaced /\ last.exc = "ok"
    /\ last.key = F_a_b /\ last.value = V_user
    /\ Data(last.res)[<<K_a, K_b>>] = Str(<<"alice", "/", "data">>)
    /\ <<K_user>> \in DOMAIN Data(last.res)

====
